---- MODULE Spec2Model ----
(***************************************************************************)
(* The lexer half of src/src/compile.rs (struct Parser and its scanning    *)
(* routines), as a state machine.  A character is a one-character string,  *)
(* the source is a sequence of characters, and the cursor current_char_i   *)
(* is the 0-based index of the next character, as in the code.  Every loop *)
(* of a routine is one action per iteration; pc names the routine that is  *)
(* running ("idle" before a call, "done" after a return).                  *)
(***************************************************************************)
EXTENDS Integers, Sequences, FiniteSets, TLC

VARIABLES
    source,          \* Parser.source
    token_start,     \* Parser.token_start
    current_char_i,  \* Parser.current_char_i
    current_line,    \* Parser.current_line
    has_error,       \* Parser.has_error
    diagnostics,     \* what print_error has reported: records [line, label, message]
    next,            \* Parser.next, the token made by make_token / make_number
    pc,              \* position in the running routine
    op,              \* the routine that is running or has just returned
    frame            \* the local variables of the running routine

vars == <<source, token_start, current_char_i, current_line, has_error,
          diagnostics, next, pc, op, frame>>

-----------------------------------------------------------------------------
(* Bounds of the model. *)

\* Longest comment text after the opening slash-star.
MaxCommentLen == 7

\* Longest text after the first digit of a number literal.
MaxNumberLen == 5

\* Longest text after the x of a hexadecimal literal.
MaxHexLen == 4

\* Longest text after the first character of a name.
MaxNameLen == 3

\* Longest text between the opening quotes of a raw string and its end.
MaxRawLen == 4

\* Longest source of the free-running lexer.
MaxSourceLen == 3

\* The free-running lexer starts no routine once current_line exceeds this.
MaxLine == 3

\* The free-running lexer starts no routine once the cursor is this far past the end.
MaxOverrun == 1

-----------------------------------------------------------------------------
(* Characters. *)

\* '\0', which peek_char returns at and after the end of the source.
NUL == "NUL"

Digits == {"0", "1", "2", "3", "4", "5", "6", "7", "8", "9"}

LowerLetters == {"a", "b", "c", "d", "e", "f", "g", "h", "i", "j", "k", "l", "m",
                 "n", "o", "p", "q", "r", "s", "t", "u", "v", "w", "x", "y", "z"}

UpperLetters == {"A", "B", "C", "D", "E", "F", "G", "H", "I", "J", "K", "L", "M",
                 "N", "O", "P", "Q", "R", "S", "T", "U", "V", "W", "X", "Y", "Z"}

is_name(c) == c \in LowerLetters \/ c \in UpperLetters \/ c = "_"

is_digit(c) == c \in Digits

\* All sequences over alphabet A of length at most n.
SeqsUpTo(A, n) == UNION {[1..k -> A] : k \in 0..n}

-----------------------------------------------------------------------------
(* The cursor.  A position p is [i |-> current_char_i, line |-> current_line]; *)
(* the routines below thread it through their calls of next_char.              *)

Cur == [i |-> current_char_i, line |-> current_line]

\* self.source.chars().nth(n).unwrap_or('\0')
CharAt(n) == IF n >= 0 /\ n < Len(source) THEN source[n + 1] ELSE NUL

peek_char(p) == CharAt(p.i)

peek_next_char(p) == CharAt(p.i + 1)

next_char(p) ==
    [i |-> p.i + 1,
     line |-> IF peek_char(p) = "\n" THEN p.line + 1 ELSE p.line]

\* match_char: [p |-> position after, matched |-> its result]
match_char(p, c) ==
    IF peek_char(p) # c
    THEN [p |-> p, matched |-> FALSE]
    ELSE [p |-> next_char(p), matched |-> TRUE]

SetCursor(p) ==
    /\ current_char_i' = p.i
    /\ current_line' = p.line

-----------------------------------------------------------------------------
(* Errors and tokens.  The bodies of print_error, make_token and make_number *)
(* are unimplemented!() in the source; they are modelled from the spec: an   *)
(* error is handed to the diagnostic sink and sets has_error, and a token    *)
(* spans token_start to the cursor.                                          *)

print_error(line, label, format) ==
    /\ has_error' = TRUE
    /\ diagnostics' = diagnostics \cup
           {[line |-> line, label |-> label, message |-> format]}

lex_error(format) == print_error(current_line, "Error", format)

NoError == UNCHANGED <<has_error, diagnostics>>

NoToken == [ty |-> "NONE", start |-> 0, length |-> 0]

\* the token of type ty ending at cursor index i
make_token(ty, i) ==
    next' = [ty |-> ty, start |-> token_start, length |-> i - token_start]

make_number(is_hex, i) == make_token("NUMBER", i)

NoFrame == [routine |-> "none"]

Return == pc' = "done"

\* A routine may be called when none is running.
Callable == pc \in {"idle", "done"}

InitParser(src, tstart, start) ==
    /\ source = src
    /\ token_start = tstart
    /\ current_char_i = start
    /\ current_line = 1
    /\ has_error = FALSE
    /\ diagnostics = {}
    /\ next = NoToken
    /\ pc = "idle"
    /\ op = "none"
    /\ frame = NoFrame

-----------------------------------------------------------------------------
(* skip_line_comment *)

skip_line_comment_call(ok) ==
    /\ ok
    /\ pc' = "skip_line_comment"
    /\ op' = "skip_line_comment"
    /\ frame' = NoFrame
    /\ UNCHANGED <<source, token_start, current_char_i, current_line,
                   has_error, diagnostics, next>>

skip_line_comment_loop ==
    /\ pc = "skip_line_comment"
    /\ IF peek_char(Cur) # "\n" /\ peek_char(Cur) # NUL
       THEN /\ SetCursor(next_char(Cur))
            /\ UNCHANGED pc
       ELSE /\ UNCHANGED <<current_char_i, current_line>>
            /\ Return
    /\ UNCHANGED <<source, token_start, has_error, diagnostics, next, op, frame>>

-----------------------------------------------------------------------------
(* skip_block_comment *)

\* block_comment_iter with the nested opener not counted.
block_comment_iter_flat(p, nesting) ==
    IF peek_char(p) = NUL
    THEN [p |-> p, nesting |-> nesting, error |-> TRUE]
    ELSE IF peek_char(p) = "/" /\ peek_next_char(p) = "*"
    THEN [p |-> next_char(next_char(p)), nesting |-> nesting, error |-> FALSE]
    ELSE IF peek_char(p) = "*" /\ peek_next_char(p) = "/"
    THEN [p |-> next_char(next_char(p)), nesting |-> nesting - 1, error |-> FALSE]
    ELSE [p |-> next_char(p), nesting |-> nesting, error |-> FALSE]

\* block_comment_iter with any closer ending the whole comment.
block_comment_iter_close_all(p, nesting) ==
    IF peek_char(p) = NUL
    THEN [p |-> p, nesting |-> nesting, error |-> TRUE]
    ELSE IF peek_char(p) = "/" /\ peek_next_char(p) = "*"
    THEN [p |-> next_char(next_char(p)), nesting |-> nesting + 1, error |-> FALSE]
    ELSE IF peek_char(p) = "*" /\ peek_next_char(p) = "/"
    THEN [p |-> next_char(next_char(p)), nesting |-> 0, error |-> FALSE]
    ELSE [p |-> next_char(p), nesting |-> nesting, error |-> FALSE]

\* block_comment_iter going round again at the end of the source.
block_comment_iter_stuck(p, nesting) ==
    IF peek_char(p) = NUL
    THEN [p |-> p, nesting |-> nesting, error |-> FALSE]
    ELSE IF peek_char(p) = "/" /\ peek_next_char(p) = "*"
    THEN [p |-> next_char(next_char(p)), nesting |-> nesting + 1, error |-> FALSE]
    ELSE IF peek_char(p) = "*" /\ peek_next_char(p) = "/"
    THEN [p |-> next_char(next_char(p)), nesting |-> nesting - 1, error |-> FALSE]
    ELSE [p |-> next_char(p), nesting |-> nesting, error |-> FALSE]

\* One iteration of the loop body at position p with the given nesting:
\* [p, nesting, error], error meaning the end of the source was met.
block_comment_iter(p, nesting) ==
    IF peek_char(p) = NUL
    THEN [p |-> p, nesting |-> nesting, error |-> TRUE]
    ELSE IF peek_char(p) = "/" /\ peek_next_char(p) = "*"
    THEN [p |-> next_char(next_char(p)), nesting |-> nesting + 1, error |-> FALSE]
    ELSE IF peek_char(p) = "*" /\ peek_next_char(p) = "/"
    THEN [p |-> next_char(next_char(p)), nesting |-> nesting - 1, error |-> FALSE]
    ELSE [p |-> next_char(p), nesting |-> nesting, error |-> FALSE]

skip_block_comment_call(ok) ==
    /\ ok
    /\ pc' = "skip_block_comment"
    /\ op' = "skip_block_comment"
    /\ frame' = [routine |-> "skip_block_comment", nesting |-> 1]
    /\ UNCHANGED <<source, token_start, current_char_i, current_line,
                   has_error, diagnostics, next>>

skip_block_comment_loop ==
    /\ pc = "skip_block_comment"
    /\ IF frame.nesting > 0
       THEN LET r == block_comment_iter(Cur, frame.nesting) IN
            IF r.error
            THEN /\ lex_error("Unterminated block comment.")
                 /\ Return
                 /\ UNCHANGED <<current_char_i, current_line, frame>>
            ELSE /\ SetCursor(r.p)
                 /\ frame' = [frame EXCEPT !.nesting = r.nesting]
                 /\ NoError
                 /\ UNCHANGED pc
       ELSE /\ Return
            /\ NoError
            /\ UNCHANGED <<current_char_i, current_line, frame>>
    /\ UNCHANGED <<source, token_start, next, op>>

-----------------------------------------------------------------------------
(* The block-comment scanner alone: the source is slash-star followed by   *)
(* any text, and skip_block_comment is called once, just after the opener. *)

CommentChars == {"/", "*", "c", "\n"}

CommentOpen == <<"/", "*">>

InitComment ==
    \E body \in SeqsUpTo(CommentChars, MaxCommentLen) :
        InitParser(CommentOpen \o body, 0, 2)

NextComment ==
    \/ skip_block_comment_call(pc = "idle")
    \/ skip_block_comment_loop

SpecComment == InitComment /\ [][NextComment]_vars

\* Reading s from index i (0-based) inside d open comments: the index just
\* after the closer that ends the outermost one, or -1 when s ends first.
RECURSIVE MatchingClose(_, _, _)
MatchingClose(s, i, d) ==
    IF i >= Len(s) THEN -1
    ELSE IF i + 2 <= Len(s) /\ s[i + 1] = "/" /\ s[i + 2] = "*"
    THEN MatchingClose(s, i + 2, d + 1)
    ELSE IF i + 2 <= Len(s) /\ s[i + 1] = "*" /\ s[i + 2] = "/"
    THEN IF d = 1 THEN i + 2 ELSE MatchingClose(s, i + 2, d - 1)
    ELSE MatchingClose(s, i + 1, d)

CommentClose == MatchingClose(source, 2, 1)

CommentReturned == pc = "done" /\ op = "skip_block_comment"

\* C1: when the text after the opener holds the closer of that opener and
\* of every opener nested in it, skip_block_comment never moves the cursor
\* past the index just after the closer that brings the nesting from 1 to 0,
\* returns with the cursor exactly there (so at no earlier closer), and
\* reports no error.
C1_BalancedCommentStopsAfterMatchingClose ==
    CommentClose # -1 =>
        /\ current_char_i <= CommentClose
        /\ has_error = FALSE
        /\ diagnostics = {}
        /\ CommentReturned =>
              /\ current_char_i = CommentClose
              /\ CharAt(current_char_i - 2) = "*"
              /\ CharAt(current_char_i - 1) = "/"
              /\ frame.nesting = 0

\* A balanced comment with a nested comment inside and text after its close.
C1_Witness ==
    /\ CommentReturned
    /\ CommentClose # -1
    /\ current_char_i < Len(source)
    /\ \E j \in 2..(current_char_i - 4) : CharAt(j) = "*" /\ CharAt(j + 1) = "/"

\* C2: when the source ends with more openers than closers,
\* skip_block_comment sets has_error, reports the unterminated comment, and
\* returns with the nesting still positive and the cursor within the source;
\* the cursor never passes the end of the source on the way.
C2_UnterminatedCommentSetsError ==
    /\ current_char_i <= Len(source)
    /\ (CommentReturned /\ CommentClose = -1) =>
          /\ has_error = TRUE
          /\ \E d \in diagnostics : d.message = "Unterminated block comment."
          /\ frame.nesting > 0
          /\ current_char_i = Len(source)

\* An unterminated comment with an unterminated comment nested in it, ending
\* in half a closer.
C2_Witness ==
    /\ CommentReturned
    /\ CommentClose = -1
    /\ has_error = TRUE
    /\ frame.nesting > 1
    /\ CharAt(Len(source) - 1) = "*"
    /\ \E j \in 2..(Len(source) - 2) : CharAt(j) = "*" /\ CharAt(j + 1) = "/"

-----------------------------------------------------------------------------
(* next_char and match_char, called on their own *)

next_char_call(ok) ==
    /\ ok
    /\ SetCursor(next_char(Cur))
    /\ pc' = "done"
    /\ op' = "next_char"
    /\ frame' = NoFrame
    /\ UNCHANGED <<source, token_start, has_error, diagnostics, next>>

match_char_call(ok, c) ==
    /\ ok
    /\ SetCursor(match_char(Cur, c).p)
    /\ pc' = "done"
    /\ op' = "match_char"
    /\ frame' = [routine |-> "match_char", result |-> match_char(Cur, c).matched]
    /\ UNCHANGED <<source, token_start, has_error, diagnostics, next>>

-----------------------------------------------------------------------------
(* read_hex_digit and read_hex_number *)

DigitChars == <<"0", "1", "2", "3", "4", "5", "6", "7", "8", "9">>

LowerHexChars == <<"a", "b", "c", "d", "e", "f">>

UpperHexChars == <<"A", "B", "C", "D", "E", "F">>

InSeq(sq, c) == \E k \in 1..Len(sq) : sq[k] = c

\* (c as i32) - (first as i32), for c one of the consecutive characters of sq
Ord(sq, c) == (CHOOSE k \in 1..Len(sq) : sq[k] = c) - 1

\* read_hex_digit accepting decimal digits only.
read_hex_digit_decimal(p) ==
    LET c == peek_char(p)
        q == next_char(p)
    IN  IF InSeq(DigitChars, c)
        THEN [p |-> q, value |-> Ord(DigitChars, c)]
        ELSE [p |-> [i |-> q.i - 1, line |-> q.line], value |-> -1]

\* read_hex_digit: [p |-> position after, value |-> its result]
read_hex_digit(p) ==
    LET c == peek_char(p)
        q == next_char(p)
    IN  IF InSeq(DigitChars, c)
        THEN [p |-> q, value |-> Ord(DigitChars, c)]
        ELSE IF InSeq(LowerHexChars, c)
        THEN [p |-> q, value |-> Ord(LowerHexChars, c) + 10]
        ELSE IF InSeq(UpperHexChars, c)
        THEN [p |-> q, value |-> Ord(UpperHexChars, c) + 10]
        ELSE [p |-> [i |-> q.i - 1, line |-> q.line], value |-> -1]

read_hex_digit_call(ok) ==
    /\ ok
    /\ SetCursor(read_hex_digit(Cur).p)
    /\ pc' = "done"
    /\ op' = "read_hex_digit"
    /\ frame' = [routine |-> "read_hex_digit", result |-> read_hex_digit(Cur).value]
    /\ UNCHANGED <<source, token_start, has_error, diagnostics, next>>

read_hex_number_call(ok) ==
    /\ ok
    /\ SetCursor(next_char(Cur))
    /\ pc' = "read_hex_number"
    /\ op' = "read_hex_number"
    /\ frame' = NoFrame
    /\ UNCHANGED <<source, token_start, has_error, diagnostics, next>>

read_hex_number_loop ==
    /\ pc = "read_hex_number"
    /\ LET r == read_hex_digit(Cur) IN
           /\ SetCursor(r.p)
           /\ IF r.value # -1
              THEN UNCHANGED <<pc, next>>
              ELSE make_number(TRUE, r.p.i) /\ Return
    /\ UNCHANGED <<source, token_start, has_error, diagnostics, op, frame>>

-----------------------------------------------------------------------------
(* read_number *)

\* has_fraction without the look at the character after the point.
has_fraction_any_point(p) == peek_char(p) = "."

\* the test that guards the fractional part
has_fraction(p) == peek_char(p) = "." /\ is_digit(peek_next_char(p))

\* exponent_head without the check for a digit.
exponent_head_unchecked(p) ==
    LET m1 == match_char(p, "e")
        m2 == IF m1.matched THEN m1 ELSE match_char(p, "E")
        s1 == match_char(m2.p, "+")
        s2 == IF s1.matched THEN s1 ELSE match_char(s1.p, "-")
    IN  IF ~m2.matched
        THEN [p |-> p, marker |-> FALSE, error |-> FALSE]
        ELSE [p |-> s2.p, marker |-> TRUE, error |-> FALSE]

\* exponent_head taking any run of signs.
exponent_head_both_signs(p) ==
    LET m1 == match_char(p, "e")
        m2 == IF m1.matched THEN m1 ELSE match_char(p, "E")
        s1 == match_char(m2.p, "+")
        s2 == match_char(s1.p, "-")
    IN  IF ~m2.matched
        THEN [p |-> p, marker |-> FALSE, error |-> FALSE]
        ELSE [p |-> s2.p, marker |-> TRUE, error |-> ~is_digit(peek_char(s2.p))]

\* The exponent marker, the optional sign and the check for a digit:
\* [p |-> position after, marker |-> e or E was matched, error |-> no digit follows]
exponent_head(p) ==
    LET m1 == match_char(p, "e")
        m2 == IF m1.matched THEN m1 ELSE match_char(p, "E")
        s1 == match_char(m2.p, "+")
        s2 == IF s1.matched THEN s1 ELSE match_char(s1.p, "-")
    IN  IF ~m2.matched
        THEN [p |-> p, marker |-> FALSE, error |-> FALSE]
        ELSE [p |-> s2.p, marker |-> TRUE, error |-> ~is_digit(peek_char(s2.p))]

read_number_call(ok) ==
    /\ ok
    /\ pc' = "read_number"
    /\ op' = "read_number"
    /\ frame' = NoFrame
    /\ UNCHANGED <<source, token_start, current_char_i, current_line,
                   has_error, diagnostics, next>>

\* while is_digit(peek_char()) { next_char() }, then on to pc value after
DigitLoop(here, after) ==
    /\ pc = here
    /\ IF is_digit(peek_char(Cur))
       THEN /\ SetCursor(next_char(Cur))
            /\ UNCHANGED pc
       ELSE /\ UNCHANGED <<current_char_i, current_line>>
            /\ pc' = after

read_number_digits ==
    /\ DigitLoop("read_number", "read_number_point")
    /\ UNCHANGED <<source, token_start, has_error, diagnostics, next, op, frame>>

read_number_point ==
    /\ pc = "read_number_point"
    /\ IF has_fraction(Cur)
       THEN /\ SetCursor(next_char(Cur))
            /\ pc' = "read_number_fraction"
       ELSE /\ UNCHANGED <<current_char_i, current_line>>
            /\ pc' = "read_number_exponent"
    /\ UNCHANGED <<source, token_start, has_error, diagnostics, next, op, frame>>

read_number_fraction ==
    /\ DigitLoop("read_number_fraction", "read_number_exponent")
    /\ UNCHANGED <<source, token_start, has_error, diagnostics, next, op, frame>>

read_number_exponent ==
    /\ pc = "read_number_exponent"
    /\ LET r == exponent_head(Cur) IN
           IF r.marker
           THEN /\ SetCursor(r.p)
                /\ IF r.error
                   THEN lex_error("Unterminated scientific notation.")
                   ELSE NoError
                /\ pc' = "read_number_exponent_digits"
                /\ UNCHANGED next
           ELSE /\ UNCHANGED <<current_char_i, current_line>>
                /\ NoError
                /\ make_number(FALSE, current_char_i)
                /\ Return
    /\ UNCHANGED <<source, token_start, op, frame>>

read_number_exponent_digits ==
    /\ pc = "read_number_exponent_digits"
    /\ IF is_digit(peek_char(Cur))
       THEN /\ SetCursor(next_char(Cur))
            /\ UNCHANGED <<pc, next>>
       ELSE /\ UNCHANGED <<current_char_i, current_line>>
            /\ make_number(FALSE, current_char_i)
            /\ Return
    /\ UNCHANGED <<source, token_start, has_error, diagnostics, op, frame>>

-----------------------------------------------------------------------------
(* read_name *)

KEYWORDS == <<
    [identifier |-> <<"b", "r", "e", "a", "k">>, token_type |-> "BREAK"],
    [identifier |-> <<"c", "o", "n", "t", "i", "n", "u", "e">>, token_type |-> "CONTINUE"],
    [identifier |-> <<"c", "l", "a", "s", "s">>, token_type |-> "CLASS"],
    [identifier |-> <<"c", "o", "n", "s", "t", "r", "u", "c", "t">>, token_type |-> "CONSTRUCT"],
    [identifier |-> <<"e", "l", "s", "e">>, token_type |-> "ELSE"],
    [identifier |-> <<"f", "a", "l", "s", "e">>, token_type |-> "FALSE"],
    [identifier |-> <<"f", "o", "r">>, token_type |-> "FOR"],
    [identifier |-> <<"f", "o", "r", "e", "i", "g", "n">>, token_type |-> "FOREIGN"],
    [identifier |-> <<"i", "f">>, token_type |-> "IF"],
    [identifier |-> <<"i", "m", "p", "o", "r", "t">>, token_type |-> "IMPORT"],
    [identifier |-> <<"a", "s">>, token_type |-> "AS"],
    [identifier |-> <<"i", "n">>, token_type |-> "IN"],
    [identifier |-> <<"i", "s">>, token_type |-> "IS"],
    [identifier |-> <<"n", "u", "l", "l">>, token_type |-> "NULL"],
    [identifier |-> <<"r", "e", "t", "u", "r", "n">>, token_type |-> "RETURN"],
    [identifier |-> <<"s", "t", "a", "t", "i", "c">>, token_type |-> "STATIC"],
    [identifier |-> <<"s", "u", "p", "e", "r">>, token_type |-> "SUPER"],
    [identifier |-> <<"t", "h", "i", "s">>, token_type |-> "THIS"],
    [identifier |-> <<"t", "r", "u", "e">>, token_type |-> "TRUE"],
    [identifier |-> <<"v", "a", "r">>, token_type |-> "VAR"],
    [identifier |-> <<"w", "h", "i", "l", "e">>, token_type |-> "WHILE"],
    [identifier |-> <<>>, token_type |-> "EOF"] >>

\* &self.source[self.token_start..self.token_start + length]
read_token_str(length) == SubSeq(source, token_start + 1, token_start + length)

\* kw_matches comparing only the first kw.len() characters of the token.
kw_matches_prefix(kw, length) ==
    /\ length >= Len(kw.identifier)
    /\ read_token_str(Len(kw.identifier)) = kw.identifier

\* length == kw.len() && self.read_token_str(length) == kw.identifier
kw_matches(kw, length) ==
    /\ length = Len(kw.identifier)
    /\ read_token_str(length) = kw.identifier

\* for kw in KEYWORDS { ... }, from entry k on, token_ty being the type so far
RECURSIVE keyword_scan(_, _, _)
keyword_scan(k, token_ty, length) ==
    IF k > Len(KEYWORDS)
    THEN token_ty
    ELSE keyword_scan(k + 1,
                      IF kw_matches(KEYWORDS[k], length)
                      THEN KEYWORDS[k].token_type
                      ELSE token_ty,
                      length)

read_name_call(ok, ty, first_char) ==
    /\ ok
    /\ pc' = "read_name"
    /\ op' = "read_name"
    /\ frame' = [routine |-> "read_name", ty |-> ty, buffer |-> <<first_char>>]
    /\ UNCHANGED <<source, token_start, current_char_i, current_line,
                   has_error, diagnostics, next>>

read_name_loop ==
    /\ pc = "read_name"
    /\ IF is_name(peek_char(Cur)) \/ is_digit(peek_char(Cur))
       THEN /\ SetCursor(next_char(Cur))
            /\ frame' = [frame EXCEPT !.buffer = Append(@, peek_char(Cur))]
            /\ UNCHANGED <<pc, next>>
       ELSE /\ UNCHANGED <<current_char_i, current_line, frame>>
            /\ make_token(keyword_scan(1, frame.ty, current_char_i - token_start),
                          current_char_i)
            /\ Return
    /\ UNCHANGED <<source, token_start, has_error, diagnostics, op>>

-----------------------------------------------------------------------------
(* read_raw_string *)

\* raw_offset leaving the newline of the dropped first line in the literal.
raw_offset_keep_newline(f) ==
    IF f.first_new_line # -1 /\ f.skip_start = f.first_new_line
    THEN f.first_new_line
    ELSE 0

\* offset, from the locals f at the end of the scan
raw_offset(f) ==
    IF f.first_new_line # -1 /\ f.skip_start = f.first_new_line
    THEN f.first_new_line + 1
    ELSE 0

\* count, from the locals f at the end of the scan
raw_count(f) ==
    LET count == IF f.last_new_line # -1 /\ f.skip_end = f.last_new_line
                 THEN f.last_new_line
                 ELSE Len(f.string)
    IN  IF raw_offset(f) > count THEN 0 ELSE count - raw_offset(f)

\* One iteration of the scanning loop at position p with locals f:
\* [p, f, exit], exit being "loop" (go round again), "break" (closing quotes
\* found) or "error" (end of source met).
raw_string_iter(p, f) ==
    LET c  == peek_char(p)
        q  == next_char(p)
        c1 == peek_char(q)
        c2 == peek_next_char(q)
        len == Len(f.string)
        is_whitespace == c = " " \/ c = "\t"
        last_new_line == IF c = "\n" THEN len ELSE f.last_new_line
        first_new_line == IF c = "\n" /\ f.first_new_line = -1
                          THEN len
                          ELSE f.first_new_line
        skip_end_nl == IF c = "\n" THEN last_new_line ELSE f.skip_end
        skip_end == IF c = "\n" \/ is_whitespace THEN 1 ELSE skip_end_nl
        skippable == f.skip_start # -1 /\ is_whitespace /\ first_new_line = -1
        skip_start_ws == IF skippable THEN len + 1 ELSE f.skip_start
        skip_start == IF first_new_line = -1 /\ ~is_whitespace /\ c # "\n"
                      THEN -1
                      ELSE skip_start_ws
        g == [f EXCEPT !.skip_start = skip_start,
                       !.first_new_line = first_new_line,
                       !.skip_end = skip_end,
                       !.last_new_line = last_new_line]
    IN  IF c = "\"" /\ c1 = "\"" /\ c2 = "\""
        THEN [p |-> q, f |-> f, exit |-> "break"]
        ELSE IF c = "\r"
        THEN [p |-> q, f |-> f, exit |-> "loop"]
        ELSE IF c = NUL \/ c1 = NUL \/ c2 = NUL
        THEN [p |-> [i |-> q.i - 1, line |-> q.line], f |-> g, exit |-> "error"]
        ELSE [p |-> q, f |-> [g EXCEPT !.string = Append(@, c)], exit |-> "loop"]

read_raw_string_call(ok) ==
    /\ ok
    /\ SetCursor(next_char(next_char(Cur)))
    /\ pc' = "read_raw_string"
    /\ op' = "read_raw_string"
    /\ frame' = [routine |-> "read_raw_string", string |-> <<>>,
                 skip_start |-> 0, first_new_line |-> -1,
                 skip_end |-> -1, last_new_line |-> -1,
                 offset |-> 0, count |-> 0]
    /\ UNCHANGED <<source, token_start, has_error, diagnostics, next>>

read_raw_string_loop ==
    /\ pc = "read_raw_string"
    /\ LET r == raw_string_iter(Cur, frame) IN
           /\ SetCursor(r.p)
           /\ frame' = r.f
           /\ IF r.exit = "error"
              THEN lex_error("Unterminated raw string.")
              ELSE NoError
           /\ pc' = IF r.exit = "loop" THEN "read_raw_string" ELSE "read_raw_string_end"
    /\ UNCHANGED <<source, token_start, next, op>>

read_raw_string_end ==
    /\ pc = "read_raw_string_end"
    /\ SetCursor(next_char(next_char(Cur)))
    /\ frame' = [frame EXCEPT !.offset = raw_offset(frame),
                              !.count = raw_count(frame)]
    /\ make_token("STRING", next_char(next_char(Cur)).i)
    /\ Return
    /\ UNCHANGED <<source, token_start, has_error, diagnostics, op>>

-----------------------------------------------------------------------------
(* The number scanner alone: the caller has consumed the first digit of the *)
(* literal (token_start = 0, cursor = 1) and calls read_number once.        *)

NumberChars == {"1", ".", "e", "E", "+", "-", "a"}

InitNumber ==
    \E body \in SeqsUpTo(NumberChars, MaxNumberLen) :
        InitParser(<<"1">> \o body, 0, 1)

NextNumber ==
    \/ read_number_call(pc = "idle")
    \/ read_number_digits
    \/ read_number_point
    \/ read_number_fraction
    \/ read_number_exponent
    \/ read_number_exponent_digits

SpecNumber == InitNumber /\ [][NextNumber]_vars

\* The end of the run of digits that starts at index i of the source.
DigitsEnd(i) ==
    CHOOSE j \in i..Len(source) :
        /\ \A k \in i..(j - 1) : CharAt(k) \in Digits
        /\ CharAt(j) \notin Digits

\* The end of the leading digit run d of the literal.
RunEnd == DigitsEnd(0)

\* The end of d and of its fractional part, if it has one.
MantissaEnd ==
    IF CharAt(RunEnd) = "." /\ CharAt(RunEnd + 1) \in Digits
    THEN DigitsEnd(RunEnd + 1)
    ELSE RunEnd

HasExponentMarker == CharAt(MantissaEnd) \in {"e", "E"}

\* Where the exponent's digits are due: after the marker and one optional sign.
ExponentStart ==
    IF CharAt(MantissaEnd + 1) \in {"+", "-"}
    THEN MantissaEnd + 2
    ELSE MantissaEnd + 1

NumberReturned == pc = "done" /\ op = "read_number"

\* C3: when the digit run d is followed by a character that is no digit, no
\* point and no e/E, read_number returns with the cursor at the end of d;
\* when d is followed by a point and then a non-digit, the point is not
\* consumed (the cursor is left on it) and no error is reported; and no point
\* is ever consumed unless the character after it is a digit.
C3_NumberStopsAtDigitRunBoundary ==
    /\ \A j \in 0..(current_char_i - 1) :
           CharAt(j) = "." => CharAt(j + 1) \in Digits
    /\ (NumberReturned /\ CharAt(RunEnd) \notin (Digits \cup {".", "e", "E"})) =>
           /\ current_char_i = RunEnd
           /\ next.length = RunEnd
           /\ has_error = FALSE
    /\ (NumberReturned /\ CharAt(RunEnd) = "." /\ CharAt(RunEnd + 1) \notin Digits) =>
           /\ current_char_i = RunEnd
           /\ peek_char(Cur) = "."
           /\ has_error = FALSE
           /\ diagnostics = {}

\* 11.a : a method call on a number literal.
C3_Witness ==
    /\ NumberReturned
    /\ RunEnd >= 2
    /\ CharAt(RunEnd) = "."
    /\ CharAt(RunEnd + 1) = "a"
    /\ current_char_i = RunEnd

\* C7: after the exponent marker and one optional sign, read_number reports
\* "Unterminated scientific notation." and sets has_error exactly when the
\* next character is no digit, and still goes on to make the NUMBER token;
\* when a digit follows, it consumes all the exponent's digits and records
\* no error.  Without a marker it records no error.
C7_MissingExponentDigitIsError ==
    /\ has_error = TRUE =>
           /\ HasExponentMarker
           /\ CharAt(ExponentStart) \notin Digits
           /\ pc \in {"read_number_exponent_digits", "done"}
           /\ diagnostics = {[line |-> 1, label |-> "Error",
                              message |-> "Unterminated scientific notation."]}
    /\ has_error = FALSE => diagnostics = {}
    /\ NumberReturned =>
           /\ next.ty = "NUMBER"
           /\ next.start = 0
           /\ next.length = current_char_i
           /\ HasExponentMarker =>
                  /\ has_error = (CharAt(ExponentStart) \notin Digits)
                  /\ current_char_i = DigitsEnd(ExponentStart)
           /\ ~HasExponentMarker =>
                  /\ has_error = FALSE
                  /\ current_char_i = MantissaEnd

\* 1.1e+- : a fraction, a marker, a sign and then no digit.
C7_Witness ==
    /\ NumberReturned
    /\ has_error = TRUE
    /\ MantissaEnd > RunEnd
    /\ CharAt(ExponentStart - 1) = "+"
    /\ CharAt(ExponentStart) = "-"
    /\ current_char_i = ExponentStart
    /\ next.ty = "NUMBER"

-----------------------------------------------------------------------------
(* The hexadecimal scanner alone: the caller has consumed the 0 of 0x       *)
(* (token_start = 0, cursor = 1, on the x) and calls read_hex_number once.  *)

HexTextChars == {"0", "9", "a", "f", "A", "F", "g", "G", "\n"}

InitHex ==
    \E body \in SeqsUpTo(HexTextChars, MaxHexLen) :
        InitParser(<<"0", "x">> \o body, 0, 1)

NextHex ==
    \/ read_hex_number_call(pc = "idle")
    \/ read_hex_number_loop

SpecHex == InitHex /\ [][NextHex]_vars

IsHexDigit(c) ==
    c \in Digits \cup {"a", "b", "c", "d", "e", "f", "A", "B", "C", "D", "E", "F"}

\* The index of the first character after the x that is no hex digit.
HexEnd ==
    CHOOSE j \in 2..Len(source) :
        /\ \A k \in 2..(j - 1) : IsHexDigit(CharAt(k))
        /\ ~IsHexDigit(CharAt(j))

HexReturned == pc = "done" /\ op = "read_hex_number"

\* C8: read_hex_number consumes the x and then every consecutive hex digit
\* and nothing more: it returns with the cursor on the first character that
\* is no hex digit (or at the end of the source), and the cursor never
\* exceeds the length of the source.
C8_HexNumberConsumesAllHexDigits ==
    /\ current_char_i <= Len(source)
    /\ current_char_i <= HexEnd
    /\ HexReturned =>
           /\ current_char_i = HexEnd
           /\ ~IsHexDigit(peek_char(Cur))
           /\ next = [ty |-> "NUMBER", start |-> 0, length |-> HexEnd]

\* Digits of all three kinds, then a character that is left unconsumed.
C8_Witness ==
    /\ HexReturned
    /\ current_char_i < Len(source)
    /\ \E i, j, k \in 2..(current_char_i - 1) :
           /\ CharAt(i) \in Digits
           /\ CharAt(j) \in {"a", "f"}
           /\ CharAt(k) \in {"A", "F"}

-----------------------------------------------------------------------------
(* The name scanner alone: the caller has consumed the first character of   *)
(* the name (token_start = 0, cursor = 1) and calls read_name once with it. *)

NameStartChars == {"i", "f", "s", "a", "o", "r", "_"}

NameChars == {"i", "f", "s", "a", "o", "r", "1", " "}

LongNames == {
    <<"f", "o", "r", "m", "a", "t">>,
    <<"f", "o", "r", "e", "i", "g", "n">>,
    <<"c", "l", "a", "s", "s">>,
    <<"c", "l", "a", "s", "s", "e", "s">>,
    <<"w", "h", "i", "l", "e", " ", "x">> }

InitName ==
    \E src \in {<<c>> \o body : c \in NameStartChars,
                               body \in SeqsUpTo(NameChars, MaxNameLen)}
               \cup LongNames :
        InitParser(src, 0, 1)

NextName ==
    \/ \E ty \in {"NAME", "FIELD"} : read_name_call(pc = "idle", ty, CharAt(0))
    \/ read_name_loop

SpecName == InitName /\ [][NextName]_vars

\* The end of the maximal run of letters, digits and underscores from index 0.
NameEnd ==
    CHOOSE j \in 1..Len(source) :
        /\ \A k \in 1..(j - 1) : is_name(CharAt(k)) \/ is_digit(CharAt(k))
        /\ ~(is_name(CharAt(j)) \/ is_digit(CharAt(j)))

\* The scanned identifier.
Identifier == SubSeq(source, 1, NameEnd)

\* The token types of the reserved words whose text is exactly w.
ReservedAs(w) ==
    {KEYWORDS[k].token_type : k \in {n \in 1..Len(KEYWORDS) : KEYWORDS[n].identifier = w}}

NameReturned == pc = "done" /\ op = "read_name"

\* C9: read_name scans the maximal run of letters, digits and underscores and
\* makes a keyword token if and only if the whole identifier is exactly the
\* text of a reserved word; every other identifier keeps the token type the
\* caller passed, and the empty entry of the table (EOF) matches nothing.
C9_KeywordIffExactMatch ==
    NameReturned =>
        /\ current_char_i = NameEnd
        /\ frame.buffer = Identifier
        /\ next.start = 0
        /\ next.length = NameEnd
        /\ next.ty # "EOF"
        /\ ReservedAs(Identifier) # {} => next.ty \in ReservedAs(Identifier)
        /\ ReservedAs(Identifier) = {} => next.ty = frame.ty

\* iff : an identifier that starts with a reserved word and is not one.
C9_Witness ==
    /\ NameReturned
    /\ Identifier = <<"i", "f", "f">>
    /\ frame.ty = "NAME"
    /\ next.ty = "NAME"

-----------------------------------------------------------------------------
(* The raw-string scanner alone: the caller has consumed the first quote    *)
(* (token_start = 0, cursor = 1) and calls read_raw_string once.  The text  *)
(* after the three quotes is any bounded text, closed by three quotes or    *)
(* not, or the text of the scenario of spec section 8.                      *)

RawChars == {"\"", " ", "\t", "\n", "\r", "a"}

Quotes == <<"\"", "\"", "\"">>

ScenarioText == <<" ", " ", "\n", " ", " ", "t", "e", "x", "t", "\n", " ", " ">>

ScenarioSource == Quotes \o ScenarioText \o Quotes

InitRaw ==
    \E src \in {Quotes \o body \o close :
                    body \in SeqsUpTo(RawChars, MaxRawLen),
                    close \in {<<>>, Quotes}}
               \cup {ScenarioSource} :
        InitParser(src, 0, 1)

NextRaw ==
    \/ read_raw_string_call(pc = "idle")
    \/ read_raw_string_loop
    \/ read_raw_string_end

SpecRaw == InitRaw /\ [][NextRaw]_vars

RawReturned == pc = "done" /\ op = "read_raw_string"

\* The literal: the scanned characters restricted to [offset, offset + count).
RawContent == SubSeq(frame.string, frame.offset + 1, frame.offset + frame.count)

\* There are closing quotes somewhere after the opening ones.
RawTerminated ==
    \E j \in 3..(Len(source) - 3) :
        CharAt(j) = "\"" /\ CharAt(j + 1) = "\"" /\ CharAt(j + 2) = "\""

Blank(s, from, to) == \A k \in from..to : s[k] \in {" ", "\t"}

Newlines(s) == {k \in 1..Len(s) : s[k] = "\n"}

Least(S) == CHOOSE k \in S : \A j \in S : k <= j

Greatest(S) == CHOOSE k \in S : \A j \in S : k >= j

\* The trim rule of spec section 4.1 applied to the scanned text s.
ReferenceTrim(s) ==
    IF Newlines(s) = {}
    THEN s
    ELSE LET first == Least(Newlines(s))
             last == Greatest(Newlines(s))
             from == IF Blank(s, 1, first - 1) THEN first + 1 ELSE 1
             to == IF Blank(s, last + 1, Len(s)) THEN last - 1 ELSE Len(s)
         IN  SubSeq(s, from, to)


\* C4: for every terminated raw string the literal computed by
\* read_raw_string is the reference trim of the scanned text: the first line
\* goes if and only if it is blank, the last line goes if and only if it is
\* blank, and nothing else is removed.
C4_RawContentIsReferenceTrim ==
    (RawReturned /\ RawTerminated) => RawContent = ReferenceTrim(frame.string)

C6_UnterminatedRawStopsAtEnd ==
    (RawReturned /\ ~RawTerminated) =>
        /\ has_error = TRUE
        /\ \E d \in diagnostics : d.message = "Unterminated raw string."
        /\ current_char_i <= Len(source)

-----------------------------------------------------------------------------
(* The lexer running free: any source over a small alphabet, the cursor at *)
(* its start on line 1, and the routines called in any order, each running *)
(* to its return before the next is called.  The alphabet has no quote, so *)
(* every raw string met here is unterminated; terminated ones are SpecRaw's.*)

LexerChars == {"\n", "/", "*", "1", ".", "e"}

\* A routine is started only while the counters are within the model's bounds.
CanStart ==
    /\ Callable
    /\ current_line <= MaxLine
    /\ current_char_i <= Len(source) + MaxOverrun

Init ==
    \E src \in SeqsUpTo(LexerChars, MaxSourceLen) : InitParser(src, 0, 0)

Next ==
    \/ next_char_call(CanStart)
    \/ \E c \in LexerChars : match_char_call(CanStart, c)
    \/ skip_line_comment_call(CanStart)
    \/ skip_line_comment_loop
    \/ skip_block_comment_call(CanStart)
    \/ skip_block_comment_loop
    \/ read_hex_digit_call(CanStart)
    \/ read_hex_number_call(CanStart)
    \/ read_hex_number_loop
    \/ read_number_call(CanStart)
    \/ read_number_digits
    \/ read_number_point
    \/ read_number_fraction
    \/ read_number_exponent
    \/ read_number_exponent_digits
    \/ read_raw_string_call(CanStart)
    \/ read_raw_string_loop
    \/ read_raw_string_end

Spec == Init /\ [][Next]_vars

\* The newlines of the source before the cursor.
NewlinesBeforeCursor ==
    Cardinality({k \in 0..(current_char_i - 1) : CharAt(k) = "\n"})

\* C10: between routines, current_line is 1 plus the number of newlines of
\* the source before the cursor.
C10_LineCountsNewlinesBeforeCursor ==
    Callable => current_line = 1 + NewlinesBeforeCursor

-----------------------------------------------------------------------------
(* One scanning routine run to its end: any short source, or one of a few  *)
(* longer ones, the cursor anywhere in it, and one of the five routines    *)
(* with loops called once.  The lexer is single-threaded and a routine,    *)
(* once called, keeps executing: hence the weak fairness of the step.      *)

\* Longest source of a single scan.
MaxScanLen == 3

ScanChars == {"\n", "\r", "\"", "/", "*", "1", "e"}

LongScans == {
    Quotes \o <<"\r", "\n", "\r">> \o Quotes,
    Quotes \o <<"\r", "\r", "\r", "\r">>,
    <<"/", "*", "/", "*", "*", "/", "\n", "*">>,
    <<"0", "x", "1", "e", "\n", "1">>,
    <<"1", ".", "1", "e", "1", "1", "e">> }

InitScan ==
    \E src \in SeqsUpTo(ScanChars, MaxScanLen) \cup LongScans :
        \E start \in 0..Len(src) : InitParser(src, 0, start)

NextScan ==
    \/ skip_line_comment_call(pc = "idle")
    \/ skip_line_comment_loop
    \/ skip_block_comment_call(pc = "idle")
    \/ skip_block_comment_loop
    \/ read_hex_number_call(pc = "idle")
    \/ read_hex_number_loop
    \/ read_number_call(pc = "idle")
    \/ read_number_digits
    \/ read_number_point
    \/ read_number_fraction
    \/ read_number_exponent
    \/ read_number_exponent_digits
    \/ read_raw_string_call(pc = "idle")
    \/ read_raw_string_loop
    \/ read_raw_string_end

SpecScan == InitScan /\ [][NextScan]_vars /\ WF_vars(NextScan)

\* The positions inside a loop of a routine.
LoopPositions ==
    {"skip_line_comment", "skip_block_comment", "read_hex_number",
     "read_number", "read_number_fraction", "read_number_exponent_digits",
     "read_raw_string"}

Scanning == pc \notin {"idle", "done"}

\* From a position inside a loop, a step moves the cursor forward or leaves
\* the position.
LoopAdvancesOrExits ==
    pc \in LoopPositions => (current_char_i' > current_char_i \/ pc' # pc)

\* C11: every scanning routine terminates on every source: each iteration of
\* a loop of skip_line_comment, skip_block_comment, read_hex_number,
\* read_number and read_raw_string moves the cursor forward or leaves the
\* loop, and a routine that has been called always returns.
C11_ScanningTerminates ==
    /\ [][LoopAdvancesOrExits]_vars
    /\ Scanning ~> (pc = "done")

\* An unterminated raw string of carriage returns has been scanned to the
\* end of the source and the routine has returned.
C11_Witness ==
    /\ pc = "done"
    /\ op = "read_raw_string"
    /\ has_error = TRUE
    /\ \E k \in 0..(Len(source) - 1) : CharAt(k) = "\r"
    /\ frame.string = <<>>
    /\ current_char_i > Len(source)

====
